---- MODULE Spec2Model ----
(***************************************************************************)
(* bimmer_connected/api/authentication.py as a state machine.              *)
(*                                                                         *)
(* One MyBMWAuthentication object (the Credential) is shared by NumCalls   *)
(* requests.  Every request is one run of async_auth_flow, driven by       *)
(* httpx: the generator yields a request, is suspended until the response  *)
(* is sent back into it, and the response of the last yield is what the    *)
(* caller gets when the generator ends; an exception raised inside the     *)
(* generator propagates to the caller.  An action of the model is one      *)
(* uninterrupted run of a coroutine between two suspension points (lock    *)
(* wait, network wait, asyncio.sleep).                                     *)
(*                                                                         *)
(* login() sends its requests through MyBMWLoginClient, that is through    *)
(* the response hook of that client and the MyBMWLoginRetry flow.          *)
(***************************************************************************)
EXTENDS Integers, Sequences, FiniteSets, TLC

\* Number of concurrent requests (apply calls) on the one Credential.
NumCalls == 2

Calls == 1..NumCalls

\* Python's None for the Optional fields of __init__ (also every falsy value).
Absent == 0

\* bimmer_connected.const.HTTPX_TIMEOUT, in seconds.
HTTPX_TIMEOUT == 30

EXPIRES_AT_OFFSET == HTTPX_TIMEOUT * 2

\* range(3) of the backoff loop of MyBMWAuthentication.async_auth_flow.
AUTH_RETRY_RANGE == 3

\* range(3) of the backoff loop of MyBMWLoginRetry.async_auth_flow.
LOGIN_RETRY_RANGE == 3

Regions == {"NORTH_AMERICA", "REST_OF_WORLD", "CHINA"}

-----------------------------------------------------------------------------
(* Responses.  A body text and a JSON message are sequences of characters. *)

Lower(ch) ==
  CASE ch = "Q" -> "q" [] ch = "U" -> "u" [] ch = "O" -> "o"
    [] ch = "T" -> "t" [] ch = "A" -> "a" [] OTHER -> ch

\* str.lower()
LowerText(s) == [k \in 1..Len(s) |-> Lower(s[k])]

\* sub in s
Contains(sub, s) ==
  \E k \in 0..(Len(s) - Len(sub)) :
     \A j \in 1..Len(sub) : s[k + j] = sub[j]

QuotaWord == <<"q", "u", "o", "t", "a">>

\* "quota" in response.text.lower()
HasQuota(text) == Contains(QuotaWord, LowerText(text))

IsDigit(ch) == ch \in {"0", "1", "2", "3", "4", "5", "6", "7", "8", "9"}

\* int(i) of one digit character
DigitValue(ch) ==
  CASE ch = "0" -> 0 [] ch = "1" -> 1 [] ch = "2" -> 2 [] ch = "3" -> 3
    [] ch = "4" -> 4 [] ch = "5" -> 5 [] ch = "6" -> 6 [] ch = "7" -> 7
    [] ch = "8" -> 8 [] ch = "9" -> 9

\* [int(i) for i in message if i.isdigit()]: one entry per digit character
DigitList(msg) ==
  LET idx == {k \in 1..Len(msg) : IsDigit(msg[k])}
      Nth[n \in 1..Cardinality(idx)] ==
        CHOOSE k \in idx : Cardinality({j \in idx : j < k}) = n - 1
  IN  [n \in 1..Cardinality(idx) |-> DigitValue(msg[Nth[n]])]

\* math.ceil(x * 1.25) for a natural x
CeilTimes125(x) == (5 * x + 3) \div 4

\* math.ceil(next(iter([...]), 2) * 1.25)
WaitTime(msg) ==
  LET ds == DigitList(msg)
  IN  CeilTimes125(IF ds = <<>> THEN 2 ELSE ds[1])

\* Bodies of 403 responses the server may give.
Texts == { <<"Q", "U", "O", "T", "A">>,
           <<"n", "o", " ", "q", "u", "o", "t", "a", "!">>,
           <<"d", "e", "n", "y">> }

\* "message" fields of 429 bodies the server may give.
Messages == { <<>>, <<"i", "n", " ", "5", "s">>, <<"1", "5">> }

\* What the API server may answer to a request of the authenticated flow.
ApiResponses ==
  { [status |-> 200, text |-> <<>>, message |-> <<>>],
    [status |-> 401, text |-> <<>>, message |-> <<>>] }
  \cup { [status |-> 403, text |-> t, message |-> <<>>] : t \in Texts }
  \cup { [status |-> 429, text |-> <<>>, message |-> m] : m \in Messages }

\* What the identity server may answer to a request of login(): a status with
\* a body that decodes to the expected fields or not ("ok"), or no response
\* at all (a transport error, httpx.RequestError).
LoginResponses ==
  { [status |-> 200, ok |-> TRUE,  message |-> <<>>],
    [status |-> 200, ok |-> FALSE, message |-> <<>>],
    [status |-> 500, ok |-> FALSE, message |-> <<>>],
    [status |-> 0,   ok |-> FALSE, message |-> <<>>] }
  \cup { [status |-> 429, ok |-> FALSE, message |-> m] : m \in Messages }

\* httpx.Response.is_error
IsError(status) == status >= 400

-----------------------------------------------------------------------------
(* The backoff loops.                                                      *)

\* Mutant of AuthRetryLoop: `while response.status_code == 429`.
AuthRetryLoopUnbounded(iter, status) ==
  IF status = 429 THEN [act |-> "sleep", iter |-> iter + 1]
  ELSE [act |-> "exit", iter |-> iter]

RECURSIVE AuthRetryLoop(_, _)
\* for _ in range(3): if response.status_code == 429: sleep, resend.
\* From iteration `iter` with the current response: the iteration that
\* sleeps, or the end of the loop.
AuthRetryLoop(iter, status) ==
  IF iter >= AUTH_RETRY_RANGE THEN [act |-> "exit", iter |-> iter]
  ELSE IF status = 429 THEN [act |-> "sleep", iter |-> iter + 1]
  ELSE AuthRetryLoop(iter + 1, status)

\* response.raise_for_status() caught and handed to handle_httpstatuserror
AuthAfterLoop(status) ==
  IF IsError(status) THEN "raise" ELSE "return"

RECURSIVE LoginRetryLoop(_, _)
LoginRetryLoop(iter, status) ==
  IF iter >= LOGIN_RETRY_RANGE THEN [act |-> "exit", iter |-> iter]
  ELSE IF status = 429 THEN [act |-> "sleep", iter |-> iter + 1]
  ELSE LoginRetryLoop(iter + 1, status)

\* Mutant of LoginAfterLoop: the response is returned unchecked.
LoginAfterLoopNoRaise(status) == "return"

\* if response.status_code == 429: raise_for_status -> handle_httpstatuserror
LoginAfterLoop(status) ==
  IF status = 429 THEN "raise" ELSE "return"

\* raise_for_status_event_handler of MyBMWLoginClient: runs on every
\* response, before the retry flow sees it.
LoginHookRaises(status) == IsError(status) /\ status # 429

-----------------------------------------------------------------------------
(* State.                                                                  *)

VARIABLES
  access_token,   \* Credential fields of MyBMWAuthentication
  expires_at,
  refresh_token,
  gcid,
  session_id,
  region,
  lock,           \* self._lock: created lazily, an asyncio.Lock
  issued,         \* number of token sets the identity server has issued
  call            \* per request: where its async_auth_flow run stands

cred == <<access_token, expires_at, refresh_token, gcid>>

vars == <<access_token, expires_at, refresh_token, gcid, session_id, region,
          lock, issued, call>>

\* Clock readings (current_utc_time), expires_in values and JWT exp claims.
Times == {1000, 2000}

ExpiresIn == {3600}

ExpClaims == {9000}

\* No login request in flight.
IdleRequest ==
  [st |-> "idle", iter |-> 0, resp |-> <<>>, sends |-> 0, sleeps |-> 0,
   wait |-> 0, msg |-> <<>>, flow |-> "none", result |-> "none"]

\* MyBMWLoginRetry.async_auth_flow up to its first yield.
NewRequest ==
  [st |-> "await", iter |-> 0, resp |-> <<>>, sends |-> 1, sleeps |-> 0,
   wait |-> 0, msg |-> <<>>, flow |-> "none", result |-> "none"]

\* No login() running.
IdleLogin ==
  [phase |-> "none", step |-> 0, refresh_calls |-> 0, full_calls |-> 0,
   refresh_failed |-> "none", had_refresh |-> FALSE,
   now |-> 0, expires_in |-> 0, exp |-> 0]

NoOutcome == [kind |-> "none", exc |-> "none", status |-> 0, at |-> "none"]

NewCall ==
  [pc |-> "start",
   hadToken |-> FALSE,      \* access_token was set when the call began
   acquired |-> 0,          \* times the call has held login_lock
   guardToken |-> -1,       \* access_token as line 79 read it (-1: not yet)
   resp |-> <<>>,           \* responses sent into the generator
   sent |-> <<>>,           \* headers of every request the generator yielded
   sleeps |-> 0,            \* asyncio.sleep calls of the backoff loop
   wait |-> 0,              \* wait_time of the sleep in progress
   msg |-> <<>>,            \* "message" of the 429 body it was computed from
   iter |-> 0,              \* iterations of the backoff loop used up
   first_logins |-> 0,      \* login() calls at line 80
   reauth_logins |-> 0,     \* login() calls at line 92
   stored_first |-> Absent, \* access_token stored by its login() of line 80
   stored_reauth |-> Absent,\* access_token stored by its login() of line 92
   outcome |-> NoOutcome,
   lg |-> IdleLogin,        \* the login() in progress
   lr |-> IdleRequest,      \* its request in flight
   lr_done |-> IdleRequest, \* its last finished request
   lr_slept3 |-> IdleRequest] \* the last finished request that slept 3 times

\* Arguments of __init__: nothing persisted, only an access token, a full
\* persisted token set, only a refresh token.
SeedCredentials(r) ==
  LET g == IF r = "CHINA" THEN 1 ELSE Absent
  IN  { [access_token |-> Absent, expires_at |-> Absent, refresh_token |-> Absent, gcid |-> Absent],
        [access_token |-> 1, expires_at |-> Absent, refresh_token |-> Absent, gcid |-> Absent],
        [access_token |-> 1, expires_at |-> 900, refresh_token |-> 1, gcid |-> g],
        [access_token |-> Absent, expires_at |-> Absent, refresh_token |-> 1, gcid |-> g] }

Init ==
  /\ region \in Regions
  /\ \E s \in SeedCredentials(region) :
        /\ access_token = s.access_token
        /\ expires_at = s.expires_at
        /\ refresh_token = s.refresh_token
        /\ gcid = s.gcid
  /\ session_id = "uuid4"
  /\ lock = [created |-> FALSE, locked |-> FALSE, waiters |-> <<>>]
  /\ issued = 0
  /\ call = [c \in Calls |-> NewCall]

-----------------------------------------------------------------------------
(* The guard.                                                              *)

\* Mutant of login_lock: a new lock on every use.
FreshLockEachTime == [created |-> TRUE, locked |-> FALSE, waiters |-> <<>>]

\* The property login_lock: the lock is made on first use.
login_lock ==
  IF ~lock.created
  THEN [created |-> TRUE, locked |-> FALSE, waiters |-> <<>>]
  ELSE lock

\* Mutant of LockIsFree: the lock never makes a caller wait.
LockNeverBusy(l) == TRUE

\* asyncio.Lock.acquire returns at once: not locked, nobody queued.
LockIsFree(l) == ~l.locked /\ l.waiters = <<>>

\* asyncio.Lock.release, at the end of `async with`.
Release(l) == [l EXCEPT !.locked = FALSE]

Remove(seq, c) == SelectSeq(seq, LAMBDA x : x # c)

-----------------------------------------------------------------------------
(* login().                                                                *)

\* Requests a strategy sends: _refresh_token_row_na 2, _refresh_token_china 1,
\* _login_row_na 4, _login_china 4.
NumRequests(r, phase) ==
  IF phase = "refresh"
  THEN (IF r = "CHINA" THEN 1 ELSE 2)
  ELSE 4

\* login() up to the first request of its first strategy.
BeginLogin(rec, pc) ==
  LET refresh == refresh_token # Absent
  IN  [rec EXCEPT
         !.pc = pc,
         !.acquired = @ + 1,
         !.lg = [phase |-> IF refresh THEN "refresh" ELSE "full",
                 step |-> 1,
                 refresh_calls |-> IF refresh THEN 1 ELSE 0,
                 full_calls |-> IF refresh THEN 0 ELSE 1,
                 refresh_failed |-> "none",
                 had_refresh |-> refresh,
                 now |-> 0, expires_in |-> 0, exp |-> 0],
         !.lr = NewRequest,
         !.lr_done = IdleRequest]

\* request.headers[...] = ...; yield request
Yield(rec, pc, token) ==
  [rec EXCEPT
     !.pc = pc,
     !.sent = Append(@, [authorization |-> token, session |-> session_id])]

AwaitAfter(pc) == IF pc = "login_first" THEN "await_first" ELSE "await_resend"

\* expires_at a strategy returns: now + expires_in, or the exp claim of the
\* token for _login_china.
StrategyExpiry(r, phase, t, e, x) ==
  IF r = "CHINA" /\ phase = "full" THEN x ELSE t + e

\* The MyBMWLoginClient request in flight gets response r: the response hook,
\* then MyBMWLoginRetry.async_auth_flow, then the decoding of the body by the
\* strategy.  The request as it stands afterwards: flow is how the retry flow
\* ended ("none" while it sleeps before a resend), result is what the strategy
\* gets: "ok", "MyBMWAPIError" or another exception, "Other".
LoginRequestStep(lr, r) ==
  LET seen == [lr EXCEPT !.resp = Append(@, r.status)]
      loop == LoginRetryLoop(lr.iter, r.status)
  IN  IF r.status = 0
      THEN [seen EXCEPT !.st = "idle", !.flow = "transport", !.result = "Other"]
      ELSE IF LoginHookRaises(r.status)
      THEN [seen EXCEPT !.st = "idle", !.flow = "hook",
                        !.result = "MyBMWAPIError"]
      ELSE IF loop.act = "sleep"
      THEN [seen EXCEPT !.st = "sleep", !.iter = loop.iter,
                        !.sleeps = @ + 1, !.wait = WaitTime(r.message),
                        !.msg = r.message]
      ELSE IF LoginAfterLoop(r.status) = "raise"
      THEN [seen EXCEPT !.st = "idle", !.iter = loop.iter, !.flow = "raised",
                        !.result = "MyBMWAPIError"]
      ELSE [seen EXCEPT !.st = "idle", !.iter = loop.iter, !.flow = "returned",
                        !.result = IF r.ok THEN "ok" ELSE "Other"]

\* Mutant of RefreshCatches: no except clause.
RefreshCatchesNothing(exc) == FALSE

\* except MyBMWAPIError: return {} of the two refresh strategies
RefreshCatches(exc) == exc = "MyBMWAPIError"

\* Mutant of LoginContinue: `if not token_data` lost, the full login follows
\* the refresh whatever it returned.
LoginContinueAlwaysFull(lg, done) ==
  IF done.result = "ok"
  THEN (IF lg.step < NumRequests(region, lg.phase) THEN "next"
        ELSE IF lg.phase = "refresh" THEN "fallback" ELSE "success")
  ELSE IF lg.phase = "refresh" /\ RefreshCatches(done.result)
  THEN "fallback"
  ELSE "fail"

\* login() after its request in flight has ended with `done`:
\* "next" request of the same strategy, "fallback" to the full login after a
\* refresh that returned {}, "success" with token_data, or "fail".
LoginContinue(lg, done) ==
  IF done.result = "ok"
  THEN (IF lg.step < NumRequests(region, lg.phase) THEN "next" ELSE "success")
  ELSE IF lg.phase = "refresh" /\ RefreshCatches(done.result)
  THEN "fallback"
  ELSE "fail"

\* Mutant of StoredExpiry: the expiry is stored as the strategy returned it.
StoredExpiryNoMargin(expiry) == expiry

\* token_data["expires_at"] - EXPIRES_AT_OFFSET
StoredExpiry(expiry) == expiry - EXPIRES_AT_OFFSET

\* The call with its finished login request noted.
Finished(rec, done) ==
  [rec EXCEPT !.lr_done = done,
              !.lr_slept3 = IF done.sleeps = 3 THEN done ELSE @]

\* Mutant of RefreshTokenAfterFallback: the except clause drops the refresh
\* token that was refused.
RefreshTokenDropped == Absent

\* self.refresh_token after `except MyBMWAPIError: return {}`: not assigned.
RefreshTokenAfterFallback == refresh_token

\* Mutant of LoginRaises: the exception of login() is swallowed and the
\* request goes out with whatever token is stored.
LoginSwallowed(rec, done, status) ==
  Yield([rec EXCEPT !.lg.phase = "failed",
                    !.lg.refresh_failed =
                       IF rec.lg.phase = "refresh" THEN done.result ELSE @,
                    !.lr = IdleRequest],
        AwaitAfter(rec.pc), access_token)

\* The exception of a strategy leaves login(), `async with self.login_lock`
\* and the generator: httpx hands it to the caller of the request.
LoginRaises(rec, done, status) ==
  [rec EXCEPT !.pc = "raised",
              !.outcome = [kind |-> "LoginError",
                           exc |-> done.result,
                           status |-> status,
                           at |-> rec.pc],
              !.lg.phase = "failed",
              !.lg.refresh_failed =
                 IF rec.lg.phase = "refresh" THEN done.result ELSE @,
              !.lr = IdleRequest]

\* A response (or a transport error) for the login request in flight.
LoginResponse(c, r, t, e, x) ==
  LET done == LoginRequestStep(call[c].lr, r)
      rec  == Finished(call[c], done)
      next == LoginContinue(rec.lg, done)
      tok  == issued + 2
  IN  /\ rec.pc \in {"login_first", "login_401"}
      /\ rec.lr.st = "await"
      /\ IF done.flow = "none"
         THEN /\ call' = [call EXCEPT ![c].lr = done]
              /\ UNCHANGED <<cred, lock, issued>>
         ELSE IF next = "next"
         THEN /\ call' = [call EXCEPT ![c] =
                            [rec EXCEPT !.lg.step = @ + 1,
                                        !.lr = NewRequest]]
              /\ UNCHANGED <<cred, lock, issued>>
         ELSE IF next = "fallback"
         THEN /\ call' = [call EXCEPT ![c] =
                            [rec EXCEPT !.lg.phase = "full", !.lg.step = 1,
                                        !.lg.full_calls = @ + 1,
                                        !.lg.refresh_failed = done.result,
                                        !.lr = NewRequest]]
              /\ refresh_token' = RefreshTokenAfterFallback
              /\ UNCHANGED <<access_token, expires_at, gcid, lock, issued>>
         ELSE IF next = "success"
         THEN /\ access_token' = tok
              /\ expires_at' =
                   StoredExpiry(StrategyExpiry(region, rec.lg.phase, t, e, x))
              /\ refresh_token' = tok
              /\ gcid' = IF region = "CHINA" THEN tok ELSE gcid
              /\ issued' = issued + 1
              /\ lock' = Release(lock)
              /\ call' = [call EXCEPT ![c] =
                            Yield([rec EXCEPT
                                     !.stored_first =
                                        IF rec.pc = "login_first" THEN tok ELSE @,
                                     !.stored_reauth =
                                        IF rec.pc = "login_401" THEN tok ELSE @,
                                     !.lg.phase = "done",
                                     !.lg.now = t,
                                     !.lg.expires_in = e,
                                     !.lg.exp = x,
                                     !.lr = IdleRequest],
                                  AwaitAfter(rec.pc), tok)]
         ELSE /\ lock' = Release(lock)
              /\ call' = [call EXCEPT ![c] = LoginRaises(rec, done, r.status)]
              /\ UNCHANGED <<cred, issued>>
      /\ UNCHANGED <<session_id, region>>

\* asyncio.sleep of MyBMWLoginRetry is over: response = yield request
LoginSleepDone(c) ==
  /\ call[c].pc \in {"login_first", "login_401"}
  /\ call[c].lr.st = "sleep"
  /\ call' = [call EXCEPT ![c].lr = [@ EXCEPT !.st = "await", !.wait = 0,
                                              !.msg = <<>>, !.sends = @ + 1]]
  /\ UNCHANGED <<cred, session_id, region, lock, issued>>

-----------------------------------------------------------------------------
(* MyBMWAuthentication.async_auth_flow.                                    *)

\* Mutant of NeedsLogin: login() on every call.
NeedsLoginAlways(token) == TRUE

\* Mutant of NeedsLogin: a token without expiry, or past it, counts as absent.
NeedsLoginIfExpired(token) ==
  token = Absent \/ expires_at = Absent \/ expires_at < 1000

\* if not self.access_token
NeedsLogin(token) == token = Absent

\* handle_httpstatuserror: raises the classified error of the response.
handle_httpstatuserror(status) ==
  [kind |-> "APIError", exc |-> "MyBMWAPIError", status |-> status,
   at |-> "retry"]

\* The generator ends: httpx returns the response of the last yield.
Returned(rec, status) ==
  [rec EXCEPT !.pc = "returned",
              !.outcome = [kind |-> "response", exc |-> "none",
                           status |-> status, at |-> "none"]]

\* Mutant of RetryStep: the last iteration resends without sleeping.
RetryStepNoThirdSleep(rec, r) ==
  LET loop == AuthRetryLoop(rec.iter, r.status)
  IN  IF loop.act = "sleep"
      THEN [rec EXCEPT !.pc = "sleeping", !.iter = loop.iter,
                       !.sleeps = IF loop.iter = AUTH_RETRY_RANGE THEN @ ELSE @ + 1,
                       !.wait = IF loop.iter = AUTH_RETRY_RANGE THEN 0
                                ELSE WaitTime(r.message),
                       !.msg = r.message]
      ELSE IF AuthAfterLoop(r.status) = "raise"
      THEN [rec EXCEPT !.pc = "raised", !.iter = loop.iter,
                       !.outcome = handle_httpstatuserror(r.status)]
      ELSE Returned([rec EXCEPT !.iter = loop.iter], r.status)

\* The backoff branch (lines 97-111) with the current response r.
RetryStep(rec, r) ==
  LET loop == AuthRetryLoop(rec.iter, r.status)
  IN  IF loop.act = "sleep"
      THEN [rec EXCEPT !.pc = "sleeping", !.iter = loop.iter,
                       !.sleeps = @ + 1, !.wait = WaitTime(r.message),
                       !.msg = r.message]
      ELSE IF AuthAfterLoop(r.status) = "raise"
      THEN [rec EXCEPT !.pc = "raised", !.iter = loop.iter,
                       !.outcome = handle_httpstatuserror(r.status)]
      ELSE Returned([rec EXCEPT !.iter = loop.iter], r.status)

\* Mutant of IsQuotaError: the elif as it was before quota-403 was added.
Only429(r) == r.status = 429

\* elif of line 97
IsQuotaError(r) ==
  r.status = 429 \/ (r.status = 403 /\ HasQuota(r.text))

\* Mutant of FlowStep: a 401 to a resend of the backoff loop is handled like
\* the first 401.
FlowStepReauthInBackoff(rec, r) ==
  LET seen == [rec EXCEPT !.resp = Append(@, [status |-> r.status,
                                              quota |-> HasQuota(r.text)])]
  IN  IF rec.pc = "await_first"
      THEN (IF r.status = 401 THEN [seen EXCEPT !.pc = "guard_401"]
            ELSE IF IsQuotaError(r) THEN RetryStep(seen, r)
            ELSE Returned(seen, r.status))
      ELSE IF rec.pc = "await_resend"
      THEN Returned(seen, r.status)
      ELSE IF r.status = 401 THEN [seen EXCEPT !.pc = "guard_401"]
      ELSE RetryStep(seen, r)

\* Mutant of FlowStep: a 401 to the resend is handled like the first 401.
FlowStepReauthAgain(rec, r) ==
  LET seen == [rec EXCEPT !.resp = Append(@, [status |-> r.status,
                                              quota |-> HasQuota(r.text)])]
  IN  IF rec.pc \in {"await_first", "await_resend"}
      THEN (IF r.status = 401 THEN [seen EXCEPT !.pc = "guard_401"]
            ELSE IF IsQuotaError(r) THEN RetryStep(seen, r)
            ELSE Returned(seen, r.status))
      ELSE RetryStep(seen, r)

\* The generator resumed with response r, up to its next suspension; the pc
\* "guard_401" stands for `async with self.login_lock` of line 90.
FlowStep(rec, r) ==
  LET seen == [rec EXCEPT !.resp = Append(@, [status |-> r.status,
                                              quota |-> HasQuota(r.text)])]
  IN  IF rec.pc = "await_first"
      THEN (IF r.status = 401 THEN [seen EXCEPT !.pc = "guard_401"]
            ELSE IF IsQuotaError(r) THEN RetryStep(seen, r)
            ELSE Returned(seen, r.status))
      ELSE IF rec.pc = "await_resend"
      THEN Returned(seen, r.status)
      ELSE RetryStep(seen, r)

\* Inside `async with self.login_lock`, the lock l just acquired: lines 79-85
\* for the first guard, lines 91-92 for the guard of the 401 branch.
EnterGuard(c, rec, l) ==
  IF rec.pc \in {"start", "wait_lock_first"}
  THEN IF NeedsLogin(access_token)
       THEN /\ lock' = [l EXCEPT !.locked = TRUE]
            /\ call' = [call EXCEPT ![c] =
                          BeginLogin([rec EXCEPT !.first_logins = @ + 1,
                                                 !.guardToken = access_token],
                                     "login_first")]
       ELSE /\ lock' = Release(l)
            /\ call' = [call EXCEPT ![c] =
                          Yield([rec EXCEPT !.acquired = @ + 1,
                                            !.guardToken = access_token],
                                "await_first", access_token)]
  ELSE /\ lock' = [l EXCEPT !.locked = TRUE]
       /\ call' = [call EXCEPT ![c] =
                     BeginLogin([rec EXCEPT !.reauth_logins = @ + 1],
                                "login_401")]

\* `async with self.login_lock`: enter at once, or queue up.
Acquire(c, rec, waitpc) ==
  LET l == login_lock
  IN  IF LockIsFree(l)
      THEN EnterGuard(c, rec, l)
      ELSE /\ lock' = [l EXCEPT !.waiters = Append(@, c)]
           /\ call' = [call EXCEPT ![c] = [rec EXCEPT !.pc = waitpc]]

\* httpx calls async_auth_flow(request).
Start(c) ==
  /\ call[c].pc = "start"
  /\ Acquire(c, [call[c] EXCEPT !.hadToken = (access_token # Absent)],
             "wait_lock_first")
  /\ UNCHANGED <<cred, session_id, region, issued>>

\* The first waiter of the released lock runs.
Wake(c) ==
  /\ call[c].pc \in {"wait_lock_first", "wait_lock_401"}
  /\ ~lock.locked
  /\ lock.waiters # <<>>
  /\ Head(lock.waiters) = c
  /\ EnterGuard(c, call[c], [lock EXCEPT !.waiters = Tail(@)])
  /\ UNCHANGED <<cred, session_id, region, issued>>

\* The response to the request the generator yielded arrives.
Response(c, r) ==
  LET rec == FlowStep(call[c], r)
  IN  /\ call[c].pc \in {"await_first", "await_resend", "await_retry"}
      /\ IF rec.pc = "guard_401"
         THEN Acquire(c, rec, "wait_lock_401")
         ELSE /\ call' = [call EXCEPT ![c] = rec]
              /\ UNCHANGED lock
      /\ UNCHANGED <<cred, session_id, region, issued>>

\* asyncio.sleep(wait_time) is over: response = yield request
SleepDone(c) ==
  /\ call[c].pc = "sleeping"
  /\ call' = [call EXCEPT ![c] =
                Yield([call[c] EXCEPT !.wait = 0, !.msg = <<>>], "await_retry",
                      call[c].sent[Len(call[c].sent)].authorization)]
  /\ UNCHANGED <<cred, session_id, region, lock, issued>>

Suspended ==
  {"wait_lock_first", "wait_lock_401", "login_first", "login_401",
   "await_first", "await_resend", "await_retry", "sleeping"}

\* Mutant of CancelLock: a login() cut short by cancellation keeps the lock.
CancelKeepsLock(l, c, pc) ==
  IF pc \in {"wait_lock_first", "wait_lock_401"}
  THEN [l EXCEPT !.waiters = Remove(@, c)]
  ELSE l

\* The lock when the task of c is cancelled at its suspension point.
CancelLock(l, c, pc) ==
  IF pc \in {"wait_lock_first", "wait_lock_401"}
  THEN [l EXCEPT !.waiters = Remove(@, c)]
  ELSE IF pc \in {"login_first", "login_401"}
  THEN Release(l)
  ELSE l

\* The task that runs the request is cancelled (asyncio.CancelledError at the
\* await it is suspended in).
Cancel(c) ==
  /\ call[c].pc \in Suspended
  /\ lock' = CancelLock(lock, c, call[c].pc)
  /\ call' = [call EXCEPT ![c] =
                [@ EXCEPT !.pc = "cancelled", !.wait = 0, !.msg = <<>>,
                          !.outcome = [kind |-> "cancelled", exc |-> "CancelledError",
                                       status |-> 0, at |-> call[c].pc],
                          !.lg.phase = IF @ = "none" \/ @ = "done" \/ @ = "failed"
                                       THEN @ ELSE "cancelled"]]
  /\ UNCHANGED <<cred, session_id, region, issued>>

-----------------------------------------------------------------------------
(* Specifications.                                                         *)

\* The identity server answers login requests without throttling, and the
\* clock reads one value.
Unthrottled == {r \in LoginResponses : r.status # 429}

OneTime == {1000}

Next ==
  \E c \in Calls :
     \/ Start(c)
     \/ Wake(c)
     \/ \E r \in ApiResponses : Response(c, r)
     \/ SleepDone(c)
     \/ \E r \in Unthrottled, t \in OneTime, e \in ExpiresIn, x \in ExpClaims :
           LoginResponse(c, r, t, e, x)
     \/ Cancel(c)

Spec == Init /\ [][Next]_vars

\* The guard alone: the API server answers 200 or 401 (the backoff branch of
\* the authenticated flow never touches the lock); the identity server
\* throttles the first send of the first request of a login().
GuardApiResponses == {r \in ApiResponses : r.status \in {200, 401}}

GuardLoginResponses(c) ==
  {r \in LoginResponses :
     /\ r.message = <<>>
     /\ r.status = 429 => (call[c].lg.step = 1 /\ call[c].lr.sends = 1)}

\* A step of the login() of call c.
LoginStep(c) ==
  \E r \in GuardLoginResponses(c), t \in OneTime, e \in ExpiresIn, x \in ExpClaims :
     LoginResponse(c, r, t, e, x)

GuardNext ==
  \E c \in Calls :
     \/ Start(c)
     \/ Wake(c)
     \/ \E r \in GuardApiResponses : Response(c, r)
     \/ LoginStep(c)
     \/ LoginSleepDone(c)
     \/ Cancel(c)

\* The event loop runs a woken waiter, every request of login() ends (with a
\* response, or with a transport error at the timeout) and every sleep ends.
FairSpec ==
  /\ Init
  /\ [][GuardNext]_vars
  /\ \A c \in Calls :
        WF_vars(Wake(c)) /\ WF_vars(LoginStep(c)) /\ WF_vars(LoginSleepDone(c))

\* Two requests to their end: the API server answers 200, 401, a quota 403
\* or 429, the identity server 200 or 500; every request and every sleep
\* ends, a woken waiter runs.
TermApiResponses ==
  {r \in ApiResponses :
     r.message = <<>> /\ r.text \in {<<>>, <<"Q", "U", "O", "T", "A">>}}

ApiStep(c) == \E r \in TermApiResponses : Response(c, r)

TermLoginResponses == {r \in Unthrottled : r.status = 200 => r.ok}

TermLoginStep(c) ==
  \E r \in TermLoginResponses, t \in OneTime, e \in ExpiresIn, x \in ExpClaims :
     LoginResponse(c, r, t, e, x)

TermNext ==
  \E c \in Calls :
     \/ Start(c)
     \/ Wake(c)
     \/ ApiStep(c)
     \/ SleepDone(c)
     \/ TermLoginStep(c)

TermSpec ==
  /\ Init
  /\ [][TermNext]_vars
  /\ \A c \in Calls :
        /\ WF_vars(Wake(c))
        /\ WF_vars(ApiStep(c))
        /\ WF_vars(SleepDone(c))
        /\ WF_vars(TermLoginStep(c))

\* One request alone, the identity server throttling too.
RetryNext ==
  \E c \in {1} :
     \/ Start(c)
     \/ \E r \in ApiResponses : Response(c, r)
     \/ SleepDone(c)
     \/ \E r \in LoginResponses, t \in Times, e \in ExpiresIn, x \in ExpClaims :
           LoginResponse(c, r, t, e, x)
     \/ LoginSleepDone(c)

RetrySpec == Init /\ [][RetryNext]_vars

-----------------------------------------------------------------------------
(* Properties.                                                             *)

RECURSIVE SumOver(_, _)
SumOver(S, f) ==
  IF S = {} THEN 0
  ELSE LET c == CHOOSE x \in S : TRUE
       IN  f[c] + SumOver(S \ {c}, f)

FirstLoginCount == SumOver(Calls, [c \in Calls |-> call[c].first_logins])

ReauthLoginCount == SumOver(Calls, [c \in Calls |-> call[c].reauth_logins])

InLogin(c) == call[c].pc \in {"login_first", "login_401"}

Waiting(c) == call[c].pc \in {"wait_lock_first", "wait_lock_401"}

\* A login() of line 80 has failed or was cancelled.
FirstLoginBroken == \E c \in Calls : call[c].outcome.at = "login_first"

Saw401(c) == \E k \in 1..Len(call[c].resp) : call[c].resp[k].status = 401

Statuses(c) == [k \in 1..Len(call[c].resp) |-> call[c].resp[k].status]

\* C1: concurrent calls that begin on a Credential without access_token run,
\* as long as no first-call login fails or is cancelled, one login() at line
\* 80 between them, and the first request of each carries the token that
\* login stored; with no 401 received that login is the only one in total.
C1_SingleFlight ==
  ~FirstLoginBroken =>
    /\ FirstLoginCount <= 1
    /\ \A c \in Calls :
         (~call[c].hadToken /\ call[c].sent # <<>>) =>
            /\ FirstLoginCount = 1
            /\ \E d \in Calls :
                  /\ call[d].first_logins = 1
                  /\ call[d].stored_first # Absent
                  /\ call[c].sent[1].authorization = call[d].stored_first
    /\ (\A c \in Calls : ~Saw401(c)) => ReauthLoginCount = 0

C1_Witness ==
  /\ FirstLoginCount = 1
  /\ ReauthLoginCount = 0
  /\ \A c \in Calls :
       /\ ~call[c].hadToken
       /\ call[c].pc = "await_first"
       /\ call[c].sent[1].authorization = access_token
  /\ \E c \in Calls : call[c].acquired = 1 /\ call[c].first_logins = 0

\* C2: at most one login() is in progress at any time, and the lock is held
\* exactly while one is.
C2_OneLoginInFlight ==
  /\ Cardinality({c \in Calls : InLogin(c)}) <= 1
  /\ lock.locked <=> (\E c \in Calls : InLogin(c))

C2_Witness ==
  \E c, d \in Calls :
     /\ call[c].pc = "login_401"
     /\ call[c].lg.phase = "full"
     /\ call[c].lg.refresh_failed = "MyBMWAPIError"
     /\ call[d].pc = "wait_lock_401"

\* C3: a call whose first response is 401 runs login() once for it and, when
\* that login succeeds, resends the request once with the token the login
\* stored; whatever the answer to the resend, the generator ends there.
C3_ReauthOnce ==
  \A c \in Calls :
     (call[c].resp # <<>> /\ call[c].resp[1].status = 401) =>
        /\ call[c].reauth_logins <= 1
        /\ Len(call[c].sent) <= 2
        /\ Len(call[c].resp) <= 2
        /\ call[c].sleeps = 0
        /\ call[c].pc \in {"login_401", "await_resend", "returned", "raised"}
              => call[c].reauth_logins = 1
        /\ Len(call[c].sent) = 2 =>
              /\ call[c].stored_reauth # Absent
              /\ call[c].sent[2].authorization = call[c].stored_reauth
              /\ call[c].sent[2].session = session_id
        /\ call[c].pc = "await_resend" => Len(call[c].sent) = 2
        /\ call[c].pc = "returned" =>
              /\ Len(call[c].sent) = 2
              /\ Len(call[c].resp) = 2
              /\ call[c].outcome.status = call[c].resp[2].status
        /\ call[c].pc = "raised" =>
              /\ call[c].outcome.kind = "LoginError"
              /\ Len(call[c].sent) = 1

C3_Witness ==
  \E c \in Calls :
     /\ call[c].pc = "returned"
     /\ Statuses(c) = <<401, 429>>
     /\ call[c].first_logins = 1
     /\ call[c].reauth_logins = 1
     /\ Len(call[c].sent) = 2
     /\ call[c].sent[1].authorization # call[c].sent[2].authorization

\* C4: when the first response is 401 and the resend is answered 401 too, the
\* call ends in an APIError raised to the caller.
C4_Second401Raises ==
  \A c \in Calls :
     (Len(call[c].resp) = 2 /\ Statuses(c) = <<401, 401>>) =>
        /\ call[c].pc = "raised"
        /\ call[c].outcome.kind = "APIError"

Throttled4 == <<429, 429, 429, 429>>

Throttled3Then200 == <<429, 429, 429, 200>>

\* The login requests of call c the state shows: in flight, last finished,
\* last finished after three sleeps.
LoginRequests(c) == {call[c].lr, call[c].lr_done, call[c].lr_slept3}

\* C5: a request answered 429 four times is sent four times and no more, and
\* then a MyBMWAPIError for the 429 is raised: by async_auth_flow of
\* MyBMWAuthentication and by that of MyBMWLoginRetry.
C5_ExhaustedRaises ==
  \A c \in Calls :
     /\ Len(call[c].sent) <= 4
     /\ Statuses(c) = Throttled4 =>
           /\ Len(call[c].sent) = 4
           /\ call[c].pc = "raised"
           /\ call[c].outcome.kind = "APIError"
           /\ call[c].outcome.exc = "MyBMWAPIError"
           /\ call[c].outcome.status = 429
     /\ \A q \in LoginRequests(c) :
           /\ q.sends <= 4
           /\ q.resp = Throttled4 =>
                 /\ q.sends = 4
                 /\ q.st = "idle"
                 /\ q.flow = "raised"
                 /\ q.result = "MyBMWAPIError"

C5_Witness ==
  \E c \in Calls :
     /\ Statuses(c) = Throttled4
     /\ call[c].pc = "raised"
     /\ call[c].lr_slept3.resp = Throttled4
     /\ call[c].lr_slept3.flow = "raised"

\* C6 as stated: on 429, 429, 429, 200 the policy sleeps twice and the 200 is
\* returned.
C6_SleepsTwice ==
  \A c \in Calls :
     /\ Statuses(c) = Throttled3Then200 =>
           /\ call[c].sleeps = 2
           /\ call[c].pc = "returned"
           /\ call[c].outcome.status = 200
     /\ \A q \in LoginRequests(c) :
           q.resp = Throttled3Then200 => (q.sleeps = 2 /\ q.flow = "returned")

\* C6 amended: on 429, 429, 429, 200 the policy sleeps three times, once
\* before each resend, and the 200 is returned without an error.
C6_SleepsThrice ==
  \A c \in Calls :
     /\ Statuses(c) = Throttled3Then200 =>
           /\ call[c].sleeps = 3
           /\ Len(call[c].sent) = 4
           /\ call[c].pc = "returned"
           /\ call[c].outcome.kind = "response"
           /\ call[c].outcome.status = 200
     /\ \A q \in LoginRequests(c) :
           q.resp = Throttled3Then200 =>
              /\ q.sleeps = 3
              /\ q.sends = 4
              /\ q.flow = "returned"

C6_Witness ==
  \E c \in Calls :
     /\ Statuses(c) = Throttled3Then200
     /\ call[c].pc = "returned"
     /\ call[c].sleeps = 3
     /\ call[c].lr_slept3.resp = Throttled3Then200
     /\ call[c].lr_slept3.sleeps = 3

FirstIsQuota403(c) ==
  /\ call[c].resp # <<>>
  /\ call[c].resp[1].status = 403
  /\ call[c].resp[1].quota

C8_AnyRefreshFailureFallsBack ==
  \A c \in Calls :
     call[c].lg.refresh_failed # "none" => call[c].lg.full_calls = 1

\* C8 amended: in every region a MyBMWAPIError in the refresh strategy does
\* not leave login(): the strategy returns {} and the full login of the region
\* is tried next.  Any other exception (a transport error, a body without
\* the expected fields) leaves login() and reaches the caller; no full login
\* is tried.
C8_ApiRefreshFailureFallsBack ==
  \A c \in Calls :
     /\ call[c].lg.refresh_failed = "MyBMWAPIError" =>
           /\ call[c].lg.refresh_calls = 1
           /\ call[c].lg.full_calls = 1
           /\ call[c].lg.phase # "refresh"
     /\ call[c].lg.refresh_failed \notin {"none", "MyBMWAPIError"} =>
           /\ call[c].lg.full_calls = 0
           /\ call[c].pc = "raised"
           /\ call[c].outcome.kind = "LoginError"
           /\ call[c].outcome.exc = call[c].lg.refresh_failed

C8_Witness ==
  \E c \in Calls :
     /\ region = "CHINA"
     /\ call[c].lg.refresh_failed = "MyBMWAPIError"
     /\ call[c].lg.phase = "done"
     /\ call[c].pc = "await_resend"

\* C10 as stated: a call that begins on a Credential holding an access token
\* never waits for the login guard.
C10_NeverWaits ==
  \A c \in Calls : call[c].hadToken => call[c].pc # "wait_lock_first"

\* C10 amended: a call that begins on a Credential holding an access token
\* takes the login guard like every call, queueing behind a login() in
\* progress or earlier waiters; it runs no login() before its first send and
\* sends with the token stored when it gets the guard.
C10_GuardTakenNoLogin ==
  \A c \in Calls :
     call[c].hadToken =>
        /\ call[c].first_logins = 0
        /\ call[c].pc # "login_first"
        /\ call[c].pc = "wait_lock_first" =>
              \E k \in 1..Len(lock.waiters) : lock.waiters[k] = c
        /\ call[c].sent # <<>> =>
              /\ call[c].acquired >= 1
              /\ call[c].sent[1].authorization # Absent

C10_Witness ==
  \E c, d \in Calls :
     /\ call[c].hadToken
     /\ call[c].pc = "wait_lock_first"
     /\ call[d].pc = "login_401"

\* C9: the lock is held exactly while a login() runs, so it is free again
\* after a login that succeeded, failed or was cancelled, and a call queued
\* on the lock gets it (or is itself cancelled) once the logins before it
\* have ended.
C9_GuardReleased ==
  /\ [](lock.locked <=> (\E c \in Calls : InLogin(c)))
  /\ [](\A c \in Calls :
          Waiting(c) <=> (\E k \in 1..Len(lock.waiters) : lock.waiters[k] = c))
  /\ \A c \in Calls :
        Waiting(c) ~>
           (call[c].pc \in {"login_first", "login_401", "await_first", "cancelled"})

C9_Witness ==
  \E c, d \in Calls :
     /\ call[c].outcome.kind = "cancelled"
     /\ call[c].outcome.at = "login_first"
     /\ call[c].lr.st = "sleep"
     /\ call[d].pc = "login_first"
     /\ call[d].acquired = 1
     /\ ~call[d].hadToken
     /\ lock.locked

RECURSIVE RunValue(_, _, _)
\* The number written by the digits of msg from position k on, up to the
\* first character that is no digit; acc is the value of the digits before k.
RunValue(msg, k, acc) ==
  IF k > Len(msg) \/ ~IsDigit(msg[k]) THEN acc
  ELSE RunValue(msg, k + 1, 10 * acc + DigitValue(msg[k]))

\* The value of the first run of consecutive digits of msg, 2 without digits.
FirstNumber(msg) ==
  LET idx == {k \in 1..Len(msg) : IsDigit(msg[k])}
  IN  IF idx = {} THEN 2
      ELSE RunValue(msg, CHOOSE k \in idx : \A j \in idx : k <= j, 0)

\* C11: every backoff sleep, of the authenticated flow and of the login flow,
\* lasts ceil(1.25 * d) seconds, d the value of the first run of consecutive
\* digits of the message of the 429 body (2 without digits).
C11_WaitFromFirstNumber ==
  \A c \in Calls :
     /\ call[c].pc = "sleeping" =>
           call[c].wait = CeilTimes125(FirstNumber(call[c].msg))
     /\ call[c].lr.st = "sleep" =>
           call[c].lr.wait = CeilTimes125(FirstNumber(call[c].lr.msg))

\* The login() of call c has ended with the exception of its last request.
LoginFailed(c) ==
  /\ call[c].lr.st = "idle"
  /\ call[c].lr_done.result \notin {"none", "ok"}

\* C12: when login() fails, its exception reaches the caller of the request,
\* and the request is not sent (login of line 80) or not sent again (login of
\* line 92).
C12_LoginFailurePropagates ==
  \A c \in Calls :
     LoginFailed(c) =>
        /\ call[c].pc = "raised"
        /\ call[c].outcome.kind = "LoginError"
        /\ call[c].outcome.exc = call[c].lr_done.result
        /\ call[c].outcome.at \in {"login_first", "login_401"}
        /\ call[c].outcome.at = "login_first" =>
              (call[c].sent = <<>> /\ call[c].resp = <<>>)
        /\ call[c].outcome.at = "login_401" =>
              (Len(call[c].sent) = 1 /\ Statuses(c) = <<401>>)

C12_Witness ==
  \E c, d \in Calls :
     /\ LoginFailed(c)
     /\ call[c].outcome.at = "login_401"
     /\ call[c].outcome.exc = "MyBMWAPIError"
     /\ call[c].lg.refresh_failed = "MyBMWAPIError"
     /\ call[c].lg.full_calls = 1
     /\ LoginFailed(d)
     /\ call[d].outcome.at = "login_first"

\* C13: login() of line 80 runs once when line 79 finds no access_token and
\* not at all when it finds one, whatever expires_at is; every request that
\* goes out carries an access token.
C13_LoginIffTokenAbsent ==
  \A c \in Calls :
     /\ call[c].first_logins <= 1
     /\ call[c].pc = "login_first" =>
           (call[c].guardToken = Absent /\ call[c].first_logins = 1)
     /\ call[c].sent # <<>> =>
           /\ call[c].guardToken # -1
           /\ call[c].first_logins = (IF call[c].guardToken = Absent THEN 1 ELSE 0)
     /\ \A k \in 1..Len(call[c].sent) :
           call[c].sent[k].authorization # Absent

\* A persisted token set whose expires_at lies before every clock reading is
\* used as it is by both calls.
C13_Witness ==
  /\ expires_at = 900
  /\ \A c \in Calls :
        /\ call[c].guardToken = 1
        /\ call[c].first_logins = 0
        /\ call[c].pc = "returned"
        /\ Statuses(c) = <<200>>
        /\ call[c].sent[1].authorization = 1

\* C14: after a login() that succeeded, expires_at is the clock reading of
\* the strategy plus expires_in (the exp claim of the token for the full login
\* of China) less twice the HTTP timeout, also when the full login came after
\* a refresh that failed.
C14_ExpiryLessMargin ==
  \A c \in Calls :
     call[c].lg.phase = "done" =>
        expires_at =
           (IF region = "CHINA" /\ call[c].lg.full_calls = 1
            THEN call[c].lg.exp
            ELSE call[c].lg.now + call[c].lg.expires_in) - 2 * HTTPX_TIMEOUT

C14_Witness ==
  \E c \in Calls :
     /\ region = "CHINA"
     /\ call[c].lg.phase = "done"
     /\ call[c].lg.refresh_failed = "MyBMWAPIError"
     /\ call[c].lg.full_calls = 1
     /\ call[c].lg.now = 2000
     /\ expires_at = 8940

\* C15: when the first request of every call went out with the same token and
\* was answered 401, one login() of line 92 serves them all.
C15_OneReauthForAll ==
  ( /\ \A c \in Calls : call[c].resp # <<>> /\ call[c].resp[1].status = 401
    /\ \A c, d \in Calls :
          call[c].sent[1].authorization = call[d].sent[1].authorization )
  => ReauthLoginCount <= 1

\* C16: in a login() the refresh strategy is called, once and first, exactly
\* when a refresh_token is stored; the full login is called, once, exactly
\* when no refresh_token is stored or the refresh strategy returned {}; it is
\* not called after a refresh that succeeded.
C16_StrategyOrder ==
  \A c \in Calls :
     call[c].lg.phase # "none" =>
        /\ call[c].lg.refresh_calls = (IF call[c].lg.had_refresh THEN 1 ELSE 0)
        /\ call[c].lg.full_calls \in {0, 1}
        /\ call[c].lg.full_calls = 1 <=>
              (~call[c].lg.had_refresh \/ call[c].lg.refresh_failed = "MyBMWAPIError")
        /\ call[c].lg.phase = "refresh" => call[c].lg.full_calls = 0
        /\ (call[c].lg.phase = "done" /\ call[c].lg.had_refresh
              /\ call[c].lg.refresh_failed = "none") => call[c].lg.full_calls = 0

C16_Witness ==
  \E c, d \in Calls :
     /\ call[c].lg.phase = "done"
     /\ call[c].lg.had_refresh
     /\ call[c].lg.refresh_failed = "MyBMWAPIError"
     /\ call[c].lg.full_calls = 1
     /\ call[d].lg.phase = "done"
     /\ call[d].lg.had_refresh
     /\ call[d].lg.refresh_failed = "none"
     /\ call[d].lg.full_calls = 0

\* The login() of call c stores its token_data in this step.
LoginSucceeds(c) ==
  /\ InLogin(c)
  /\ call[c].lg.phase \in {"refresh", "full"}
  /\ call'[c].lg.phase = "done"

\* C17: access_token, expires_at, refresh_token and gcid change only in the
\* step in which a login() succeeds, which the call runs holding the lock; a
\* login() that fails, a send, a sleep and a resend leave them as they are,
\* and session_id never changes.
C17_OnlyLoginStores ==
  [][ /\ session_id' = session_id
      /\ cred' # cred =>
            /\ lock.locked
            /\ \E c \in Calls :
                  /\ LoginSucceeds(c)
                  /\ access_token' # Absent
                  /\ access_token' \in {call'[c].stored_first, call'[c].stored_reauth}
                  /\ refresh_token' # Absent
                  /\ expires_at' # Absent
                  /\ \A d \in Calls \ {c} : call'[d] = call[d]
      /\ (\E c \in Calls : LoginSucceeds(c)) => access_token' # access_token
    ]_vars

\* A login() has failed after tokens were stored, and they are still there.
C17_Witness ==
  \E c, d \in Calls :
     /\ call[c].lg.phase = "failed"
     /\ call[c].outcome.at = "login_401"
     /\ call[c].lg.refresh_failed = "MyBMWAPIError"
     /\ call[d].stored_first # Absent
     /\ access_token = call[d].stored_first
     /\ refresh_token = access_token
     /\ call[d].sleeps >= 1

\* C18: access_token is set exactly when expires_at is set.
C18_TokenIffExpiry ==
  (access_token # Absent) <=> (expires_at # Absent)

Ended(c) == call[c].pc \in {"returned", "raised"}

\* C19: a call that has begun ends, with a response or an exception, after at
\* most 4 sends of its request (at most 2 when it had a 401) and at most 2
\* runs of login().
C19_Terminates ==
  /\ [](\A c \in Calls :
          /\ Len(call[c].sent) <= 4
          /\ call[c].sleeps <= 3
          /\ call[c].first_logins + call[c].reauth_logins <= 2
          /\ call[c].reauth_logins = 1 =>
                (Len(call[c].sent) <= 2 /\ call[c].sleeps = 0))
  /\ \A c \in Calls : (call[c].pc # "start") ~> Ended(c)

C19_Witness ==
  \E c, d \in Calls :
     /\ call[c].pc = "returned"
     /\ Len(call[c].sent) = 4
     /\ call[c].sleeps = 3
     /\ call[d].pc = "returned"
     /\ call[d].first_logins + call[d].reauth_logins = 2
     /\ Len(call[d].sent) = 2

\* The first response after the first one that is not a 429, 0 if none.
FirstNot429(c) ==
  LET idx == {k \in 2..Len(call[c].resp) : call[c].resp[k].status # 429}
  IN  IF idx = {} THEN 0 ELSE CHOOSE k \in idx : \A j \in idx : k <= j

\* C20: in the backoff loop the first answer to a resend that is not a 429
\* ends the call: nothing is sent and nothing sleeps after it, a success is
\* returned, an error status (a 401 or a quota 403 too) is raised as
\* MyBMWAPIError, and no login() runs for it.
C20_BackoffStopsAtFirstOther ==
  \A c \in Calls :
     (call[c].resp # <<>> /\ call[c].resp[1].status = 429 /\ FirstNot429(c) # 0) =>
        LET k == FirstNot429(c)
            status == call[c].resp[k].status
        IN  /\ Len(call[c].resp) = k
            /\ Len(call[c].sent) = k
            /\ call[c].sleeps = k - 1
            /\ call[c].reauth_logins = 0
            /\ call[c].lg.phase \in {"none", "done"}
            /\ IF status < 400
               THEN /\ call[c].pc = "returned"
                    /\ call[c].outcome.kind = "response"
                    /\ call[c].outcome.status = status
               ELSE /\ call[c].pc = "raised"
                    /\ call[c].outcome.kind = "APIError"
                    /\ call[c].outcome.exc = "MyBMWAPIError"
                    /\ call[c].outcome.status = status

C20_Witness ==
  \E c \in Calls :
     /\ Statuses(c) = <<429, 429, 401>>
     /\ call[c].pc = "raised"
     /\ call[c].outcome.status = 401
     /\ call[c].sleeps = 2
     /\ call[c].first_logins = 1

====
